---- MODULE Spec2Model ----
(***************************************************************************)
(* Registration and profile provisioning of the donation marketplace:      *)
(* core/views.py (register), core/models.py (User, DonorProfile,           *)
(* ReceiverProfile and the two post_save receivers) and core/forms.py.     *)
(* The relational store is modelled as three sets of rows; its primary-key *)
(* and unique constraints are enforced by the insert/update operators,     *)
(* which answer with an error instead of writing when a constraint fails.  *)
(***************************************************************************)
EXTENDS Integers, Sequences, FiniteSets, TLC

\* ------------------------------------------------------------------ bounds
\* Largest auto-increment primary key the User table hands out.
MaxId == 3

\* ------------------------------------------------------------- value tokens
DONOR == "DONOR"
RECEIVER == "RECEIVER"
ADMIN == "ADMIN"
\* User.Role.choices
Roles == {DONOR, RECEIVER, ADMIN}

\* None (a NULL column), the blank string, and a string longer than max_length
NULL == "NULL"
BLANK == ""
LONG == "LONG"

Usernames == {"u1", "u2"}
\* what a client may post in the text inputs of the registration page
FirstNames == {BLANK, "Alice", LONG}
LastNames == {"Lee"}
Phones == {BLANK, "555"}
NgoNames == {BLANK, "Ngo"}
RegNumbers == {"REG1", "REG2"}

\* a persistence failure the store may raise on a write (none: it does not)
Faults == {"none", "create", "resave", "profile_save"}

\* the two concurrent requests of the interleaving specification
Requests == {"A", "B"}

VARIABLES
    users,              \* User rows: [id, username, role]
    donorProfiles,      \* DonorProfile rows: [user, first_name, last_name, phone_number]
    receiverProfiles,   \* ReceiverProfile rows: [user, ngo_name, registration_number, phone_number, is_verified]
    nextId,             \* next auto-increment primary key of User
    last,               \* the operation that ran last, its input and its outcome
    req                 \* per concurrent request: position, input, created user, outcome

vars == <<users, donorProfiles, receiverProfiles, nextId, last, req>>

\* the store as one value, handed through the operators below
Store == [users |-> users, donors |-> donorProfiles,
          receivers |-> receiverProfiles, nextId |-> nextId]

SetStore(S) ==
    /\ users' = S.users
    /\ donorProfiles' = S.donors
    /\ receiverProfiles' = S.receivers
    /\ nextId' = S.nextId

EmptyStore == [users |-> {}, donors |-> {}, receivers |-> {}, nextId |-> 1]

SetStoreInit ==
    /\ users = EmptyStore.users
    /\ donorProfiles = EmptyStore.donors
    /\ receiverProfiles = EmptyStore.receivers
    /\ nextId = EmptyStore.nextId

Ok(S) == [store |-> S, err |-> "none"]
Raise(S, e) == [store |-> S, err |-> e]

\* ------------------------------------------------------------------ rows
UserRow(id, username, role) == [id |-> id, username |-> username, role |-> role]

\* DonorProfile(user=u): the nullable CharFields default to None
EmptyDonorProfile(uid) ==
    [user |-> uid, first_name |-> NULL, last_name |-> NULL, phone_number |-> NULL]

\* ReceiverProfile(user=u): CharFields without null default to '', is_verified to False
EmptyReceiverProfile(uid) ==
    [user |-> uid, ngo_name |-> BLANK, registration_number |-> BLANK,
     phone_number |-> NULL, is_verified |-> FALSE]

DonorRowsOf(S, uid) == {p \in S.donors : p.user = uid}
ReceiverRowsOf(S, uid) == {p \in S.receivers : p.user = uid}

\* ------------------------------------------------------- store: profiles
\* DonorProfile.objects.create: INSERT, the primary key (user) is unique
InsertDonor(S, row) ==
    IF DonorRowsOf(S, row.user) # {}
    THEN Raise(S, "IntegrityError")
    ELSE Ok([S EXCEPT !.donors = @ \cup {row}])

\* ReceiverProfile.objects.create: INSERT, primary key and registration_number unique
InsertReceiver(S, row) ==
    IF \/ ReceiverRowsOf(S, row.user) # {}
       \/ \E p \in S.receivers : p.registration_number = row.registration_number
    THEN Raise(S, "IntegrityError")
    ELSE Ok([S EXCEPT !.receivers = @ \cup {row}])

\* a save that always adds a row, never updating the one of the same key
SaveDonor_AddsRow(S, row) == Ok([S EXCEPT !.donors = @ \cup {row}])

\* DonorProfile.save() with the primary key set: UPDATE the row of that key,
\* INSERT when no row was updated
SaveDonor(S, row) ==
    IF DonorRowsOf(S, row.user) # {}
    THEN Ok([S EXCEPT !.donors = (@ \ DonorRowsOf(S, row.user)) \cup {row}])
    ELSE InsertDonor(S, row)

\* a save forced to INSERT
SaveReceiver_InsertOnly(S, row) == InsertReceiver(S, row)

\* ReceiverProfile.save() with the primary key set: UPDATE the row of that key
\* (registration_number stays unique among the other rows), else INSERT
SaveReceiver(S, row) ==
    IF ReceiverRowsOf(S, row.user) # {}
    THEN IF \E p \in S.receivers :
                p.user # row.user /\ p.registration_number = row.registration_number
         THEN Raise(S, "IntegrityError")
         ELSE Ok([S EXCEPT !.receivers = (@ \ ReceiverRowsOf(S, row.user)) \cup {row}])
    ELSE InsertReceiver(S, row)

\* a delete that leaves the profiles behind
DeleteUser_NoCascade(S, uid) == [S EXCEPT !.users = {u \in @ : u.id # uid}]

\* a rollback that was forgotten
DeleteUser_NoOp(S, uid) == S

\* user.delete(): on_delete=CASCADE removes the profiles that point at the user
DeleteUser(S, uid) ==
    [S EXCEPT !.users = {u \in @ : u.id # uid},
              !.donors = {p \in @ : p.user # uid},
              !.receivers = {p \in @ : p.user # uid}]

\* --------------------------------------------------- Profile Provisioner
\* post_save receiver: on creation, an empty profile of the user's role
create_user_profile(S, u, created, fault) ==
    IF ~created THEN Ok(S)
    ELSE IF u.role = DONOR
         THEN IF fault = "create" THEN Raise(S, "DatabaseError")
              ELSE InsertDonor(S, EmptyDonorProfile(u.id))
    ELSE IF u.role = RECEIVER
         THEN IF fault = "create" THEN Raise(S, "DatabaseError")
              ELSE InsertReceiver(S, EmptyReceiverProfile(u.id))
    ELSE Ok(S)

\* a re-save that writes a fresh profile instead of the stored one
save_user_profile_Reset(S, u, fault) ==
    IF u.role = DONOR /\ DonorRowsOf(S, u.id) # {}
    THEN SaveDonor(S, EmptyDonorProfile(u.id))
    ELSE IF u.role = RECEIVER /\ ReceiverRowsOf(S, u.id) # {}
    THEN SaveReceiver(S, EmptyReceiverProfile(u.id))
    ELSE Ok(S)

\* post_save receiver: on every save, re-save the profile of the user's role;
\* only DoesNotExist is swallowed
save_user_profile(S, u, fault) ==
    IF u.role = DONOR
    THEN IF DonorRowsOf(S, u.id) = {} THEN Ok(S)
         ELSE IF fault = "resave" THEN Raise(S, "DatabaseError")
         ELSE SaveDonor(S, CHOOSE p \in DonorRowsOf(S, u.id) : TRUE)
    ELSE IF u.role = RECEIVER
    THEN IF ReceiverRowsOf(S, u.id) = {} THEN Ok(S)
         ELSE IF fault = "resave" THEN Raise(S, "DatabaseError")
         ELSE SaveReceiver(S, CHOOSE p \in ReceiverRowsOf(S, u.id) : TRUE)
    ELSE Ok(S)

\* post_save.send: the receivers run in the order given, the first exception
\* ends the dispatch and propagates to the caller of save()
Dispatch(S, u, created, fault, order) ==
    LET run(T, name) == IF name = "create_user_profile"
                        THEN create_user_profile(T, u, created, fault)
                        ELSE save_user_profile(T, u, fault)
        first == run(S, order[1])
    IN  IF first.err # "none" THEN first ELSE run(first.store, order[2])

\* the order in which models.py connects the two receivers
ReceiverOrder == <<"create_user_profile", "save_user_profile">>

post_save(S, u, created, fault) == Dispatch(S, u, created, fault, ReceiverOrder)

\* User.save() of a new user: INSERT (username unique) commits, then post_save
\* is sent; an exception of a receiver leaves the inserted row in place
UserCreateOrdered(S, username, role, fault, order) ==
    IF \E u \in S.users : u.username = username
    THEN Raise(S, "IntegrityError")
    ELSE LET u == UserRow(S.nextId, username, role)
             T == [S EXCEPT !.users = @ \cup {u}, !.nextId = @ + 1]
         IN  Dispatch(T, u, TRUE, fault, order)

UserCreate(S, username, role, fault) ==
    UserCreateOrdered(S, username, role, fault, ReceiverOrder)

\* User.save() of a persisted user: UPDATE commits, then post_save is sent
UserUpdate(S, uid, role, fault) ==
    LET old == CHOOSE u \in S.users : u.id = uid
        u == [old EXCEPT !.role = role]
        T == [S EXCEPT !.users = (@ \ {old}) \cup {u}]
    IN  post_save(T, u, FALSE, fault)

\* ------------------------------------------------------------------ forms
\* a registration submission (request.POST); phone_number is one input shared
\* by both profile forms; acctOk: e-mail format and the passwords pass. The
\* inputs of the form the role does not select are never read and are left blank.
Submission(username, acctOk, role, first_name, last_name, phone_number, ngo_name, registration_number) ==
    [username |-> username, acctOk |-> acctOk, role |-> role,
     first_name |-> first_name, last_name |-> last_name, phone_number |-> phone_number,
     ngo_name |-> ngo_name, registration_number |-> registration_number]

Submissions ==
    {Submission(n, ok, DONOR, f, l, ph, BLANK, BLANK) :
        n \in Usernames, ok \in BOOLEAN, f \in FirstNames, l \in LastNames, ph \in Phones}
    \cup {Submission(n, ok, RECEIVER, BLANK, BLANK, ph, g, r) :
        n \in Usernames, ok \in BOOLEAN, ph \in Phones, g \in NgoNames, r \in RegNumbers}
    \cup {Submission(n, ok, ADMIN, BLANK, BLANK, BLANK, BLANK, BLANK) :
        n \in Usernames, ok \in BOOLEAN}

\* the submissions without a phone number, for the specifications whose other
\* actions already make the state space large
CoreSubmissions == {inp \in Submissions : inp.phone_number = BLANK}

\* UserRegistrationForm.is_valid(): field checks and the username's uniqueness
UserFormValid(S, inp) ==
    /\ inp.acctOk
    /\ inp.role \in Roles
    /\ ~\E u \in S.users : u.username = inp.username

\* a CharField of a ModelForm over a nullable column cleans '' to None
CleanNullable(v) == IF v = BLANK THEN NULL ELSE v

\* DonorProfileForm.is_valid(): all fields optional, max_length enforced
DonorFormValid(inp) ==
    /\ inp.first_name # LONG
    /\ inp.last_name # LONG
    /\ inp.phone_number # LONG

\* ReceiverProfileForm.is_valid(): ngo_name and registration_number required,
\* max_length enforced, registration_number unique among the stored profiles
ReceiverFormValid(S, inp) ==
    /\ inp.ngo_name \notin {BLANK, LONG}
    /\ inp.registration_number \notin {BLANK, LONG}
    /\ inp.phone_number # LONG
    /\ ~\E p \in S.receivers : p.registration_number = inp.registration_number

\* donor_form.save(commit=False); profile.user = user
DonorFormRow(inp, uid) ==
    [user |-> uid, first_name |-> CleanNullable(inp.first_name),
     last_name |-> CleanNullable(inp.last_name),
     phone_number |-> CleanNullable(inp.phone_number)]

\* receiver_form.save(commit=False); profile.user = user
ReceiverFormRow(inp, uid) ==
    [user |-> uid, ngo_name |-> inp.ngo_name,
     registration_number |-> inp.registration_number,
     phone_number |-> CleanNullable(inp.phone_number), is_verified |-> FALSE]

\* ------------------------------------------------------ Account Registrar
Result(S, outcome, message, uid, trace) ==
    [store |-> S, outcome |-> outcome, message |-> message, uid |-> uid, trace |-> trace]

\* a donor branch taken by every role that is not RECEIVER
ProfileBranch_DonorDefault(S, inp) ==
    IF inp.role = RECEIVER /\ ReceiverFormValid(S, inp) THEN "receiver"
    ELSE IF inp.role # RECEIVER /\ DonorFormValid(inp) THEN "donor"
    ELSE "invalid"

\* the branch of the try block the role and its form select
ProfileBranch(S, inp) ==
    IF inp.role = DONOR /\ DonorFormValid(inp) THEN "donor"
    ELSE IF inp.role = RECEIVER /\ ReceiverFormValid(S, inp) THEN "receiver"
    ELSE "invalid"

\* profile.save() of the selected branch
SaveProfile(S, branch, inp, uid, fault) ==
    IF fault = "profile_save" THEN Raise(S, "DatabaseError")
    ELSE IF branch = "donor" THEN SaveDonor(S, DonorFormRow(inp, uid))
    ELSE SaveReceiver(S, ReceiverFormRow(inp, uid))

\* the message of the else branch
InvalidProfileMessage(role) ==
    IF role = DONOR THEN "donor_profile_errors"
    ELSE IF role = RECEIVER THEN "receiver_profile_errors"
    ELSE "generic_profile_error"

\* the try block of register, for the user that user.save() has persisted
ProvisionProfile(S, inp, uid, fault) ==
    IF ProfileBranch(S, inp) = "invalid"
    THEN Result(DeleteUser(S, uid), "profile_invalid",
                InvalidProfileMessage(inp.role), uid,
                <<"user.save", "user.delete">>)
    ELSE LET branch == ProfileBranch(S, inp)
             sv == SaveProfile(S, branch, inp, uid, fault)
         IN  IF sv.err # "none"
             THEN Result(DeleteUser(sv.store, uid), "unexpected_error",
                         "unexpected_error", uid,
                         <<"user.save", "profile.save", "user.delete">>)
             ELSE Result(sv.store, "success",
                         IF branch = "donor" THEN "donor_created" ELSE "receiver_created",
                         uid, <<"user.save", "profile.save">>)

\* register(request) for a POST; user.save() stands outside the try block, so
\* an exception it raises leaves the view uncaught
register(S, inp, fault) ==
    IF ~UserFormValid(S, inp)
    THEN Result(S, "account_invalid", "account_errors", 0, <<>>)
    ELSE LET sv == UserCreate(S, inp.username, inp.role, fault)
         IN  IF sv.err # "none"
             THEN Result(sv.store, "uncaught", sv.err,
                         IF sv.store.nextId > S.nextId THEN S.nextId ELSE 0,
                         <<"user.save">>)
             ELSE ProvisionProfile(sv.store, inp, S.nextId, fault)

\* ---------------------------------------------------------------- actions
NoSubmission == Submission("", FALSE, "", BLANK, BLANK, BLANK, BLANK, BLANK)

Op(op, inp, uid, before, outcome, message, trace) ==
    [op |-> op, inp |-> inp, uid |-> uid, before |-> before, outcome |-> outcome,
     message |-> message, trace |-> trace]

Idle == [r \in Requests |-> [pc |-> "idle", inp |-> NoSubmission, uid |-> 0, outcome |-> ""]]

Init ==
    /\ SetStoreInit
    /\ last = Op("none", NoSubmission, 0, "", "", "", <<>>)
    /\ req = Idle

\* one POST to /register/, handled from start to end
Register(inp, fault) ==
    /\ nextId <= MaxId
    /\ LET r == register(Store, inp, fault)
       IN  /\ SetStore(r.store)
           /\ last' = Op("register", inp, r.uid, "", r.outcome, r.message, r.trace)
    /\ UNCHANGED req

\* an administrator marks a receiver's organisation as verified
AdminVerify(uid) ==
    /\ \E p \in receiverProfiles : p.user = uid /\ ~p.is_verified
    /\ receiverProfiles' = {IF p.user = uid THEN [p EXCEPT !.is_verified = TRUE] ELSE p :
                                p \in receiverProfiles}
    /\ last' = Op("verify", NoSubmission, uid, "", "success", "", <<>>)
    /\ UNCHANGED <<users, donorProfiles, nextId, req>>

\* User.save() of a new user by code other than the registration view
CreateUser(username, role) ==
    /\ nextId <= MaxId
    /\ LET r == UserCreate(Store, username, role, "none")
       IN  /\ SetStore(r.store)
           /\ last' = Op("create_user",
                         Submission(username, FALSE, role, BLANK, BLANK, BLANK, BLANK, BLANK),
                         nextId, "", r.err, "", <<"user.save">>)
    /\ UNCHANGED req

\* User.save() of a persisted user, its role kept or changed
UpdateUser(uid, role) ==
    /\ \E u \in users : u.id = uid
    /\ LET r == UserUpdate(Store, uid, role, "none")
       IN  /\ SetStore(r.store)
           /\ last' = Op("update_user",
                         Submission("", FALSE, role, BLANK, BLANK, BLANK, BLANK, BLANK),
                         uid, (CHOOSE u \in users : u.id = uid).role, r.err, "",
                         <<"user.save">>)
    /\ UNCHANGED req

\* ------------------------------------ two requests, one committed step each
SetReq(r, pc, inp, uid, outcome) ==
    req' = [req EXCEPT ![r] = [pc |-> pc, inp |-> inp, uid |-> uid, outcome |-> outcome]]

\* the POST arrives and the three forms are bound to it
Submit(r, inp) ==
    /\ req[r].pc = "idle"
    /\ nextId <= MaxId
    /\ SetReq(r, "bound", inp, 0, "")
    /\ UNCHANGED <<users, donorProfiles, receiverProfiles, nextId, last>>

\* user_form.is_valid()
ValidateAccount(r) ==
    /\ req[r].pc = "bound"
    /\ IF UserFormValid(Store, req[r].inp)
       THEN SetReq(r, "account_valid", req[r].inp, 0, "")
       ELSE SetReq(r, "done", req[r].inp, 0, "account_invalid")
    /\ UNCHANGED <<users, donorProfiles, receiverProfiles, nextId, last>>

\* user.save(), with the profile the creation reaction makes
PersistUser(r) ==
    /\ req[r].pc = "account_valid"
    /\ LET sv == UserCreate(Store, req[r].inp.username, req[r].inp.role, "none")
       IN  /\ SetStore(sv.store)
           /\ IF sv.err # "none"
              THEN SetReq(r, "done", req[r].inp,
                          IF sv.store.nextId > nextId THEN nextId ELSE 0, "uncaught")
              ELSE SetReq(r, "persisted", req[r].inp, nextId, "")
    /\ UNCHANGED last

\* donor_form.is_valid() or receiver_form.is_valid(), as the role selects
ValidateProfile(r) ==
    /\ req[r].pc = "persisted"
    /\ SetReq(r, ProfileBranch(Store, req[r].inp), req[r].inp, req[r].uid, "")
    /\ UNCHANGED <<users, donorProfiles, receiverProfiles, nextId, last>>

\* profile.save()
SaveProfileStep(r) ==
    /\ req[r].pc \in {"donor", "receiver"}
    /\ LET sv == SaveProfile(Store, req[r].pc, req[r].inp, req[r].uid, "none")
       IN  /\ SetStore(sv.store)
           /\ IF sv.err # "none"
              THEN SetReq(r, "failed", req[r].inp, req[r].uid, "")
              ELSE SetReq(r, "done", req[r].inp, req[r].uid, "success")
    /\ UNCHANGED last

\* user.delete() of the else branch or of the except branch
RollbackStep(r) ==
    /\ req[r].pc \in {"invalid", "failed"}
    /\ SetStore(DeleteUser(Store, req[r].uid))
    /\ SetReq(r, "done", req[r].inp, req[r].uid,
              IF req[r].pc = "invalid" THEN "profile_invalid" ELSE "unexpected_error")
    /\ UNCHANGED last

\* both responses are sent; the workers are free to take the next requests
Respond ==
    /\ \A q \in Requests : req[q].pc = "done"
    /\ req' = Idle
    /\ UNCHANGED <<users, donorProfiles, receiverProfiles, nextId, last>>

\* ---------------------------------------------------------- specifications
\* registrations one after the other
Next ==
    \/ \E inp \in Submissions : Register(inp, "none")
    \/ \E uid \in 1..MaxId : AdminVerify(uid)

Spec == Init /\ [][Next]_vars

\* registrations one after the other, the store failing a write now and then
NextFault ==
    \/ \E inp \in Submissions, fault \in Faults : Register(inp, fault)

SpecFault == Init /\ [][NextFault]_vars

\* registrations and saves of User rows by any other code
NextSave ==
    \/ \E inp \in CoreSubmissions : Register(inp, "none")
    \/ \E n \in Usernames, role \in Roles : CreateUser(n, role)
    \/ \E uid \in 1..MaxId, role \in Roles : UpdateUser(uid, role)

SpecSave == Init /\ [][NextSave]_vars

\* two registration requests whose committed steps interleave
NextConc ==
    \/ \E r \in Requests :
        \/ \E inp \in CoreSubmissions : Submit(r, inp)
        \/ ValidateAccount(r)
        \/ PersistUser(r)
        \/ ValidateProfile(r)
        \/ SaveProfileStep(r)
        \/ RollbackStep(r)
    \/ Respond

SpecConc == Init /\ [][NextConc]_vars

\* ------------------------------------------------------------ properties
UsernameTaken(n) == \E u \in users : u.username = n
RegNumberTaken(r) == \E p \in receiverProfiles : p.registration_number = r
Stored(v) == IF v = "" THEN "NULL" ELSE v

TablesUnchanged ==
    /\ users' = users
    /\ donorProfiles' = donorProfiles
    /\ receiverProfiles' = receiverProfiles

\* C1: a registration submission that does not report success leaves the User,
\* DonorProfile and ReceiverProfile tables as they were before it, and the User
\* it may have created does not exist afterwards.
C1_FailureLeavesNothing ==
    [][(last'.op = "register" /\ last'.outcome # "success")
        => /\ TablesUnchanged
           /\ ~\E u \in users' : u.id = last'.uid]_vars

\* a receiver submission with a missing ngo_name was rolled back next to stored rows
C1_Witness ==
    /\ last.op = "register"
    /\ last.outcome = "profile_invalid"
    /\ last.trace = <<"user.save", "user.delete">>
    /\ last.inp.role = "RECEIVER"
    /\ last.inp.ngo_name = ""
    /\ users # {}
    /\ receiverProfiles # {}

\* C2: after a RECEIVER submission with valid account and receiver fields, a
\* User of role RECEIVER exists with exactly one ReceiverProfile and no
\* DonorProfile; the profile holds the submitted ngo_name and
\* registration_number and is_verified is false.
C2_ValidReceiver ==
    [][(/\ last'.op = "register"
        /\ last'.inp.role = "RECEIVER"
        /\ last'.inp.acctOk
        /\ ~UsernameTaken(last'.inp.username)
        /\ last'.inp.ngo_name \notin {"", "LONG"}
        /\ last'.inp.registration_number \notin {"", "LONG"}
        /\ ~RegNumberTaken(last'.inp.registration_number))
        => /\ last'.outcome = "success"
           /\ Cardinality({u \in users' : u.id = last'.uid}) = 1
           /\ \A u \in users' : u.id = last'.uid =>
                  u.role = "RECEIVER" /\ u.username = last'.inp.username
           /\ Cardinality({p \in receiverProfiles' : p.user = last'.uid}) = 1
           /\ \A p \in receiverProfiles' : p.user = last'.uid =>
                  /\ p.ngo_name = last'.inp.ngo_name
                  /\ p.registration_number = last'.inp.registration_number
                  /\ p.phone_number = Stored(last'.inp.phone_number)
                  /\ p.is_verified = FALSE
           /\ ~\E p \in donorProfiles' : p.user = last'.uid]_vars

\* a second receiver was registered with success
C2_Witness ==
    /\ last.op = "register"
    /\ last.outcome = "success"
    /\ last.inp.role = "RECEIVER"
    /\ \E p \in receiverProfiles : p.user = last.uid /\ p.registration_number = "REG2"
    /\ \E p \in receiverProfiles : p.user # last.uid

\* C3: after a DONOR submission with valid account and donor fields, a User of
\* role DONOR exists with exactly one DonorProfile and no ReceiverProfile, and
\* the profile holds the submitted first_name, last_name and phone_number.
C3_ValidDonor ==
    [][(/\ last'.op = "register"
        /\ last'.inp.role = "DONOR"
        /\ last'.inp.acctOk
        /\ ~UsernameTaken(last'.inp.username)
        /\ "LONG" \notin {last'.inp.first_name, last'.inp.last_name, last'.inp.phone_number})
        => /\ last'.outcome = "success"
           /\ Cardinality({u \in users' : u.id = last'.uid}) = 1
           /\ \A u \in users' : u.id = last'.uid =>
                  u.role = "DONOR" /\ u.username = last'.inp.username
           /\ Cardinality({p \in donorProfiles' : p.user = last'.uid}) = 1
           /\ \A p \in donorProfiles' : p.user = last'.uid =>
                  /\ p.first_name = Stored(last'.inp.first_name)
                  /\ p.last_name = Stored(last'.inp.last_name)
                  /\ p.phone_number = Stored(last'.inp.phone_number)
           /\ ~\E p \in receiverProfiles' : p.user = last'.uid]_vars

\* a donor was registered with success and its profile holds the submitted name
C3_Witness ==
    /\ last.op = "register"
    /\ last.outcome = "success"
    /\ last.inp.role = "DONOR"
    /\ last.inp.first_name = "Alice"
    /\ \E p \in donorProfiles : p.user = last.uid /\ p.first_name = "Alice"

\* C6: no two ReceiverProfiles hold the same registration number; a RECEIVER
\* submission that reuses the registration number of a stored ReceiverProfile
\* does not succeed, its User is not persisted afterwards, and the stored rows
\* (the earlier User and its ReceiverProfile among them) are unchanged.
C6_RegistrationNumberUnique ==
    /\ [](\A p, q \in receiverProfiles :
            p.registration_number = q.registration_number => p = q)
    /\ [][(/\ last'.op = "register"
            /\ last'.inp.role = "RECEIVER"
            /\ RegNumberTaken(last'.inp.registration_number))
            => /\ last'.outcome # "success"
               /\ ~\E u \in users' : u.id = last'.uid
               /\ TablesUnchanged]_vars

\* an otherwise valid receiver submission reused the number of a verified receiver
C6_Witness ==
    /\ last.op = "register"
    /\ last.inp.role = "RECEIVER"
    /\ last.inp.acctOk
    /\ last.inp.ngo_name = "Ngo"
    /\ last.outcome = "profile_invalid"
    /\ \E p \in receiverProfiles :
          p.registration_number = last.inp.registration_number /\ p.is_verified

\* C10: no User of role ADMIN is ever persisted by registration; an ADMIN
\* submission with valid account fields saves the User, deletes it again and
\* reports the generic profile error.
C10_NoAdminRegistered ==
    /\ [](\A u \in users : u.role # "ADMIN")
    /\ [][(/\ last'.op = "register"
            /\ last'.inp.role = "ADMIN"
            /\ last'.inp.acctOk
            /\ ~UsernameTaken(last'.inp.username))
            => /\ last'.trace = <<"user.save", "user.delete">>
               /\ last'.outcome = "profile_invalid"
               /\ last'.message = "generic_profile_error"
               /\ nextId' = nextId + 1
               /\ ~\E u \in users' : u.id = last'.uid]_vars

\* an ADMIN submission with valid account fields was handled
C10_Witness ==
    /\ last.op = "register"
    /\ last.inp.role = "ADMIN"
    /\ last.message = "generic_profile_error"
    /\ last.uid = 2
    /\ nextId = 3
    /\ users # {}

\* the profile a user's role requires, and no other
HasRequiredProfile(S, u) ==
    /\ Cardinality(DonorRowsOf(S, u.id)) = (IF u.role = "DONOR" THEN 1 ELSE 0)
    /\ Cardinality(ReceiverRowsOf(S, u.id)) = (IF u.role = "RECEIVER" THEN 1 ELSE 0)

\* C4: a persistence failure while the profile of a just-created User is being
\* provisioned never leaves the request uncaught; the User is deleted, the
\* generic error is reported, and no User stays without its required profile.
C4_FailureCaughtAndRolledBack ==
    (last.op = "register" /\ last.trace # <<>>)
        => /\ last.outcome # "uncaught"
           /\ last.outcome = "unexpected_error" =>
                  (last.message = "unexpected_error" /\ ~\E u \in users : u.id = last.uid)
           /\ \A u \in users : u.id = last.uid => HasRequiredProfile(Store, u)

\* C5: once both concurrent requests have finished, every DONOR or RECEIVER
\* User has exactly one matching profile, no two ReceiverProfiles share a
\* registration number, and a request that did not succeed left no User.
C5_InterleavingsConsistent ==
    (\A r \in Requests : req[r].pc = "done")
        => /\ \A u \in users : HasRequiredProfile(Store, u)
           /\ \A p, q \in receiverProfiles :
                  p.registration_number = q.registration_number => p = q
           /\ \A r \in Requests : req[r].outcome # "success" =>
                  ~\E u \in users : u.id = req[r].uid

\* C7: after any sequence of User saves, every DONOR has exactly one
\* DonorProfile and no ReceiverProfile, every RECEIVER exactly one
\* ReceiverProfile and no DonorProfile, every ADMIN neither.
C7_DataModelInvariant == \A u \in users : HasRequiredProfile(Store, u)

\* C8: a save of a persisted User that keeps its role leaves both profile
\* tables as they are, and no User ever has two profiles of one kind.
C8_ResaveIdempotent ==
    /\ [](\A id \in 1..(MaxId + 1) :
            Cardinality(DonorRowsOf(Store, id)) <= 1
            /\ Cardinality(ReceiverRowsOf(Store, id)) <= 1)
    /\ [][(/\ last'.op = "update_user"
            /\ \E u \in users : u.id = last'.uid /\ u.role = last'.inp.role)
            => /\ donorProfiles' = donorProfiles
               /\ receiverProfiles' = receiverProfiles
               /\ users' = users]_vars

\* a registered donor with a filled-in profile was saved again, role unchanged
C8_Witness ==
    /\ last.op = "update_user"
    /\ last.before = "DONOR"
    /\ last.inp.role = "DONOR"
    /\ \E p \in donorProfiles : p.user = last.uid /\ p.first_name = "Alice"

\* C9: the first save of a DONOR or RECEIVER User ends without an error and
\* with exactly one empty profile of the role, in the same final state
\* whichever of the two reactions runs first.
C9_FirstSaveOrderIndependent ==
    \A n \in Usernames, role \in {"DONOR", "RECEIVER"} :
        ~UsernameTaken(n) =>
            LET a == UserCreateOrdered(Store, n, role, "none",
                        <<"create_user_profile", "save_user_profile">>)
                b == UserCreateOrdered(Store, n, role, "none",
                        <<"save_user_profile", "create_user_profile">>)
            IN  /\ a.err = "none"
                /\ b.err = "none"
                /\ a.store = b.store
                /\ role = "DONOR" => a.store.donors = donorProfiles \cup
                       {[user |-> nextId, first_name |-> "NULL", last_name |-> "NULL",
                         phone_number |-> "NULL"]}
                /\ role = "RECEIVER" => a.store.receivers = receiverProfiles \cup
                       {[user |-> nextId, ngo_name |-> "", registration_number |-> "",
                         phone_number |-> "NULL", is_verified |-> FALSE]}

====
